---- MODULE Spec2Model ----
(***************************************************************************)
(* licensebat: the collection and validation pipeline.                     *)
(*                                                                         *)
(*   licensebat-cli/src/check.rs          run                              *)
(*   licensebat-js/src/collector/npm.rs   Npm (FileCollector)              *)
(*   licensebat-js/src/collector/common.rs  retrieve_from_npm              *)
(*   licensebat-js/src/retriever/npm.rs   Npm (Retriever),                 *)
(*                                        build_retrieved_dependency       *)
(*                                                                         *)
(* A lockfile path is a sequence of path tokens and a collector's filename *)
(* a sequence of tokens, so that str::contains is a real substring search. *)
(* Option<T> is a sequence of length at most one: <<>> is None, <<x>> is   *)
(* Some(x).  Result<T, E> is a record with the flag ok.                    *)
(***************************************************************************)
EXTENDS Naturals, Sequences, FiniteSets, TLC

VARIABLES
    path,            \* cli.dependency_file
    content,         \* dep_file_content
    policy,          \* licrc
    pc,              \* position of run
    tried,           \* collectors whose get_dependencies was called, in order
    invoked,         \* Retriever::get_dependency calls made, in order
    stream,          \* the FuturesUnordered returned by the collector
    ready,           \* futures whose registry response has arrived, in arrival order
    dependency,      \* the loop variable of run's while let
    validated_deps,  \* the vector run accumulates
    result           \* what run hands to its caller

vars == <<path, content, policy, pc, tried, invoked, stream, ready, dependency,
          validated_deps, result>>

(***************************************************************************)
(* Bounds of the model.                                                    *)
(***************************************************************************)
MaxDeps == 2
MaxPathLen == 2

(***************************************************************************)
(* Option and Result.                                                      *)
(***************************************************************************)
None == <<>>
Some(x) == <<x>>
is_some(o) == Len(o) = 1
is_none(o) == Len(o) = 0

Ok(x) == [ok |-> TRUE, v |-> x]
Err(e) == [ok |-> FALSE, e |-> e]

\* The value a panicking unwrap leaves in place of an item.
Panic == [panic |-> TRUE]
is_panic(x) == "panic" \in DOMAIN x

\* Result::unwrap
unwrap(r) == IF r.ok THEN r.v ELSE Panic

\* Result::ok
ok(r) == IF r.ok THEN Some(r.v) ELSE None

(***************************************************************************)
(* serde_json::Value, as far as the retriever reads it.                    *)
(***************************************************************************)
JNull == [t |-> "null"]
JNum == [t |-> "number"]
JStr(s) == [t |-> "string", s |-> s]
JObj(f) == [t |-> "object", fields |-> f]
NoFields == <<>>

\* Index<&str> for Value: a missing key, or a value that is no object, gives Null.
Index(v, key) ==
    IF v.t = "object" /\ key \in DOMAIN v.fields THEN v.fields[key] ELSE JNull

\* Value::as_str
as_str(v) == IF v.t = "string" THEN Some(v.s) ELSE None

(***************************************************************************)
(* The inputs.                                                             *)
(***************************************************************************)
Names == {"left-pad", "foo", "bar"}
Versions == {"1.3.0", "2.0.0"}
\* License strings a registry document can carry; nothing keeps a package from
\* declaring the very string the retriever uses as its sentinel.
Licenses == {"MIT", "GPL-3.0", "NO-LICENSE"}

Dependency(n, v) == [name |-> n, version |-> v]

\* reqwest::Error, by what failed.
TransportError == "transport"
DecodeError == "decode"

\* Display for reqwest::Error
to_string(e) ==
    IF e = TransportError THEN "error sending request" ELSE "error decoding response body"

\* The package-level license field of a registry document.
PackageLicenses ==
    {JNull, JNum, JObj(NoFields), JObj("type" :> JNum)}
        \cup {JStr(l) : l \in Licenses}
        \cup {JObj("type" :> JStr(l)) : l \in Licenses}

\* One entry of the document's versions object.
VersionEntries ==
    {JObj(NoFields), JObj("license" :> JNull), JObj("license" :> JObj("type" :> JStr("MIT")))}
        \cup {JObj("license" :> JStr(l)) : l \in Licenses}

\* The versions object: an entry for some of the versions.
VersionMaps ==
    UNION {[vs -> VersionEntries] : vs \in SUBSET Versions}

Document(lic, vmap) ==
    JObj((IF lic = JNull THEN NoFields ELSE "license" :> lic)
            @@ ("versions" :> JObj(vmap)))

\* What the registry can answer to one GET.
TransportFailure == [kind |-> "transport_error"]
DecodeFailure == [kind |-> "decode_error"]
Body(doc) == [kind |-> "json", body |-> doc]

Responses ==
    {TransportFailure, DecodeFailure, Body(JNum)}
        \cup {Body(Document(lic, vmap)) : lic \in PackageLicenses, vmap \in VersionMaps}

(***************************************************************************)
(* The combinators of futures::TryFutureExt, on the Result a future yields.*)
(***************************************************************************)
and_then(r, F(_)) == IF r.ok THEN F(r.v) ELSE r
map_ok(r, F(_)) == IF r.ok THEN Ok(F(r.v)) ELSE r
or_else(r, F(_)) == IF r.ok THEN r ELSE F(r.e)

\* Option::and_then
opt_and_then(o, F(_)) == IF is_some(o) THEN F(o[1]) ELSE None

\* reqwest: RequestBuilder::send, then Response::json, on the registry's answer.
send(resp) == IF resp.kind = "transport_error" THEN Err(TransportError) ELSE Ok(resp)
json(resp) == IF resp.kind = "decode_error" THEN Err(DecodeError) ELSE Ok(resp.body)

(***************************************************************************)
(* NpmMetadata (retriever/npm_metadata.rs): a struct with one field,       *)
(* license: Option<String>, and get_licenses, which gives the license as a *)
(* one-element list.                                                       *)
(***************************************************************************)
from_value(v) ==
    IF v.t # "object" THEN Err("invalid type")
    ELSE LET l == Index(v, "license") IN
         IF l.t = "null" THEN Ok([license |-> None])
         ELSE IF l.t = "string" THEN Ok([license |-> Some(l.s)])
         ELSE Err("invalid type")

get_licenses(md) == IF is_some(md.license) THEN Some(<<md.license[1]>>) ELSE None

(***************************************************************************)
(* retriever/npm.rs                                                        *)
(***************************************************************************)
NPM == "npm"
NoLicense == "NO-LICENSE"
NoLicenseError == "No License"
RemovableComment == "Consider **ignoring** this specific dependency."

\* format!("https://registry.npmjs.org/{}", dep_name)
registry_url(dep_name) == <<"https://registry.npmjs.org/", dep_name>>

\* The package URL with the two arguments of format! exchanged.
package_url_swapped(name, version) ==
    <<"https://www.npmjs.com/package/", version, "/v/", name>>

\* format!("https://www.npmjs.com/package/{}/v/{}", name, version)
package_url(name, version) == <<"https://www.npmjs.com/package/", name, "/v/", version>>

\* build_retrieved_dependency without the substitutions for a missing license:
\* licenses and error are passed through as given.
build_retrieved_dependency_absent(dep, licenses, error) ==
    LET has_licenses == is_some(licenses) IN
    [name |-> dep.name,
     version |-> dep.version,
     url |-> Some(package_url(dep.name, dep.version)),
     dependency_type |-> NPM,
     validated |-> FALSE,
     is_valid |-> has_licenses /\ is_none(error),
     is_ignored |-> FALSE,
     error |-> IF is_some(error) THEN Some(to_string(error[1])) ELSE None,
     licenses |-> licenses,
     comment |-> None]

\* build_retrieved_dependency with the test of error inverted in is_valid.
build_retrieved_dependency_inverted(dep, licenses, error) ==
    LET has_licenses == is_some(licenses) IN
    [name |-> dep.name,
     version |-> dep.version,
     url |-> Some(package_url(dep.name, dep.version)),
     dependency_type |-> NPM,
     validated |-> FALSE,
     is_valid |-> has_licenses /\ is_some(error),
     is_ignored |-> FALSE,
     error |-> IF is_some(error) THEN Some(to_string(error[1]))
               ELSE IF has_licenses THEN None
               ELSE Some(NoLicenseError),
     licenses |-> IF has_licenses THEN licenses ELSE Some(<<NoLicense>>),
     comment |-> IF has_licenses THEN None ELSE Some(RemovableComment)]

\* build_retrieved_dependency marking a record with licenses as validated already.
build_retrieved_dependency_prevalidated(dep, licenses, error) ==
    LET has_licenses == is_some(licenses) IN
    [name |-> dep.name,
     version |-> dep.version,
     url |-> Some(package_url(dep.name, dep.version)),
     dependency_type |-> NPM,
     validated |-> has_licenses,
     is_valid |-> has_licenses /\ is_none(error),
     is_ignored |-> FALSE,
     error |-> IF is_some(error) THEN Some(to_string(error[1]))
               ELSE IF has_licenses THEN None
               ELSE Some(NoLicenseError),
     licenses |-> IF has_licenses THEN licenses ELSE Some(<<NoLicense>>),
     comment |-> IF has_licenses THEN None ELSE Some(RemovableComment)]

\* build_retrieved_dependency taking is_valid from the request error alone.
build_retrieved_dependency_no_has(dep, licenses, error) ==
    LET has_licenses == is_some(licenses) IN
    [name |-> dep.name,
     version |-> dep.version,
     url |-> Some(package_url(dep.name, dep.version)),
     dependency_type |-> NPM,
     validated |-> FALSE,
     is_valid |-> is_none(error),
     is_ignored |-> FALSE,
     error |-> IF is_some(error) THEN Some(to_string(error[1]))
               ELSE IF has_licenses THEN None
               ELSE Some(NoLicenseError),
     licenses |-> IF has_licenses THEN licenses ELSE Some(<<NoLicense>>),
     comment |-> IF has_licenses THEN None ELSE Some(RemovableComment)]

build_retrieved_dependency(dep, licenses, error) ==
    LET has_licenses == is_some(licenses) IN
    [name |-> dep.name,
     version |-> dep.version,
     url |-> Some(package_url(dep.name, dep.version)),
     dependency_type |-> NPM,
     validated |-> FALSE,
     is_valid |-> has_licenses /\ is_none(error),
     is_ignored |-> FALSE,
     error |-> IF is_some(error) THEN Some(to_string(error[1]))
               ELSE IF has_licenses THEN None
               ELSE Some(NoLicenseError),
     licenses |-> IF has_licenses THEN licenses ELSE Some(<<NoLicense>>),
     comment |-> IF has_licenses THEN None ELSE Some(RemovableComment)]

\* The first map_ok closure of get_dependency: from the document to the licenses.
resolve_licenses(metadata, dependency_version) ==
    LET license == Index(metadata, "license")
        version == Index(Index(metadata, "versions"), dependency_version)
        generic == IF license.t = "string" THEN Some(license.s)
                   ELSE IF license.t = "object" THEN as_str(Index(license, "type"))
                   ELSE None
    IN  opt_and_then(ok(from_value(version)),
            LAMBDA md : get_licenses(IF is_none(md.license)
                                     THEN [md EXCEPT !.license = generic]
                                     ELSE md))

\* get_dependency without its or_else: an error of the request reaches the unwrap.
get_dependency_uncaught(dep_name, dep_version, resp) ==
    LET dep == Dependency(dep_name, dep_version)
        fetched == and_then(send(resp), json)
        licenses == map_ok(fetched, LAMBDA metadata : resolve_licenses(metadata, dep_version))
        built == map_ok(licenses, LAMBDA l : build_retrieved_dependency(dep, l, None))
    IN  unwrap(built)

\* What the future returned by get_dependency resolves to, given the registry's answer.
get_dependency(dep_name, dep_version, resp) ==
    LET dep == Dependency(dep_name, dep_version)
        fetched == and_then(send(resp), json)
        licenses == map_ok(fetched, LAMBDA metadata : resolve_licenses(metadata, dep_version))
        built == map_ok(licenses, LAMBDA l : build_retrieved_dependency(dep, l, None))
        caught == or_else(built, LAMBDA e : Ok(build_retrieved_dependency(dep, None, Some(e))))
    IN  unwrap(caught)

(***************************************************************************)
(* The other retrievers (licensebat-rust, licensebat-dart), from the       *)
(* Retriever contract: a failed call gives a record with error set and no  *)
(* licenses, a call that resolves no license the sentinel list.            *)
(***************************************************************************)
spec_fetch(ecosystem, dep, resp) ==
    LET fetched == and_then(send(resp), json)
        lic == IF fetched.ok THEN as_str(Index(fetched.v, "license")) ELSE None
    IN  [name |-> dep.name,
         version |-> dep.version,
         url |-> Some(<<ecosystem, dep.name, dep.version>>),
         dependency_type |-> ecosystem,
         validated |-> FALSE,
         is_valid |-> fetched.ok /\ is_some(lic),
         is_ignored |-> FALSE,
         error |-> IF fetched.ok THEN None ELSE Some(to_string(fetched.e)),
         licenses |-> IF ~fetched.ok THEN None
                      ELSE IF is_some(lic) THEN Some(<<lic[1]>>)
                      ELSE Some(<<NoLicense>>),
         comment |-> IF fetched.ok /\ is_none(lic) THEN Some(RemovableComment) ELSE None]

(***************************************************************************)
(* Lockfiles.  The content of a lockfile is the format it is written in    *)
(* and the entries it declares, in file order, with distinct keys.         *)
(***************************************************************************)
PathTokens == {"package-lock.json", "yarn.lock", "Cargo.lock", "pubspec.lock", "src"}
Paths == UNION {[1..n -> PathTokens] : n \in 1..MaxPathLen}

Formats == {"package-lock", "yarn", "cargo", "pubspec"}
Malformed == [format |-> "malformed", entries |-> <<>>]

Entry(k, v) == [key |-> k, version |-> v]

\* The keys in the order npm writes them (sorted), so that a list of entries is
\* one lockfile and not one of its permutations.
KeyOrder == <<"bar", "foo", "left-pad">>
KeyIndex(k) == CHOOSE i \in 1..Len(KeyOrder) : KeyOrder[i] = k

EntryLists ==
    UNION {{e \in [1..n -> {Entry(k, v) : k \in Names, v \in Versions}] :
                \A i, j \in 1..n : i < j => KeyIndex(e[i].key) < KeyIndex(e[j].key)} :
           n \in 0..MaxDeps}
Contents == {Malformed} \cup {[format |-> f, entries |-> e] : f \in Formats, e \in EntryLists}

\* str::contains on token sequences
contains(haystack, needle) ==
    \E i \in 0..(Len(haystack) - Len(needle)) :
        SubSeq(haystack, i + 1, i + Len(needle)) = needle

(***************************************************************************)
(* collector/common.rs and collector/npm.rs                                *)
(***************************************************************************)
NoResponse == [kind |-> "none"]

\* One boxed future of the stream: the dependency it was made for, the retriever
\* that made it, the URL it asks, how far it got, the requests it issued and the
\* answer it got; and, for the record of the run, its rank among the completed
\* futures, the item it yielded and the validate calls made on that item.
Future(r, dep) ==
    [dep |-> dep, retriever |-> r, url |-> registry_url(dep.name), st |-> "created",
     requests |-> 0, resp |-> NoResponse, rank |-> 0, item |-> None, validations |-> 0]

\* retrieve_from_npm losing the first dependency of the iterator.
retrieve_from_npm_skip(deps, retriever) ==
    [calls |-> [i \in 1..Len(deps) |-> deps[i]],
     stream |-> LET all == [i \in 1..Len(deps) |-> Future(retriever, deps[i])]
                IN  IF all = <<>> THEN all ELSE Tail(all)]

\* retrieve_from_npm: one get_dependency call per dependency, collected into the stream.
retrieve_from_npm(deps, retriever) ==
    [calls |-> [i \in 1..Len(deps) |-> deps[i]],
     stream |-> [i \in 1..Len(deps) |-> Future(retriever, deps[i])]]

\* serde_json::from_str::<NpmDependencies>
from_str(dependency_file_content) ==
    IF dependency_file_content.format = "package-lock"
    THEN Ok([dependencies |-> dependency_file_content.entries])
    ELSE Err("parse")

\* FileCollector::get_dependency_filename for Npm
get_dependency_filename == <<"package-lock.json">>

\* get_dependencies starting the retrievals before it looks at the parse result.
get_dependencies_eager(dependency_file_content) ==
    LET parsed == from_str(dependency_file_content)
        entries == dependency_file_content.entries
        npm_deps == [i \in 1..Len(entries) |->
                        Dependency(entries[i].key, entries[i].version)]
        fanned == retrieve_from_npm(npm_deps, NPM)
    IN  IF ~parsed.ok THEN [res |-> Err(parsed.e), calls |-> fanned.calls]
        ELSE [res |-> Ok(fanned.stream), calls |-> fanned.calls]

\* FileCollector::get_dependencies for Npm: the result and the retriever calls made.
get_dependencies(dependency_file_content) ==
    LET parsed == from_str(dependency_file_content) IN
    IF ~parsed.ok THEN [res |-> Err(parsed.e), calls |-> <<>>]
    ELSE LET entries == parsed.v.dependencies
             npm_deps == [i \in 1..Len(entries) |->
                             Dependency(entries[i].key, entries[i].version)]
             fanned == retrieve_from_npm(npm_deps, NPM)
         IN  [res |-> Ok(fanned.stream), calls |-> fanned.calls]

(***************************************************************************)
(* The other collectors (Yarn, Rust, Dart), from the Collector contract.   *)
(***************************************************************************)
spec_filename(c) ==
    IF c = "yarn" THEN <<"yarn.lock">>
    ELSE IF c = "rust" THEN <<"Cargo.lock">>
    ELSE <<"pubspec.lock">>

spec_format(c) ==
    IF c = "yarn" THEN "yarn" ELSE IF c = "rust" THEN "cargo" ELSE "pubspec"

spec_collect(c, retriever, dependency_file_content) ==
    IF dependency_file_content.format # spec_format(c)
    THEN [res |-> Err("parse"), calls |-> <<>>]
    ELSE LET entries == dependency_file_content.entries
             deps == [i \in 1..Len(entries) |->
                         Dependency(entries[i].key, entries[i].version)]
         IN  [res |-> Ok([i \in 1..Len(deps) |-> Future(retriever, deps[i])]),
              calls |-> deps]

(***************************************************************************)
(* LicRc::validate (licensebat-core), from the Policy Validator contract.  *)
(***************************************************************************)
Policies ==
    {[overrides |-> <<>>, licenses |-> ("MIT" :> "allow"), default |-> "deny"],
     [overrides |-> ("foo" :> "ignore"),
      licenses |-> ("MIT" :> "allow") @@ ("GPL-3.0" :> "deny"), default |-> "allow"]}

validate(dep, licrc) ==
    LET lics == IF is_some(dep.licenses) THEN dep.licenses[1] ELSE <<>>
        matched == {i \in 1..Len(lics) : lics[i] \in DOMAIN licrc.licenses}
        by_license == \A i \in 1..Len(lics) :
                         /\ lics[i] \in DOMAIN licrc.licenses
                         /\ licrc.licenses[lics[i]] = "allow"
        outcome == IF dep.name \in DOMAIN licrc.overrides THEN licrc.overrides[dep.name]
                   ELSE IF matched # {} THEN (IF by_license THEN "allow" ELSE "deny")
                   ELSE licrc.default
    IN  [dep EXCEPT !.validated = TRUE,
                    !.is_ignored = (outcome = "ignore"),
                    !.is_valid = IF outcome = "ignore" THEN dep.is_valid
                                 ELSE outcome = "allow" /\ is_none(dep.error)]

(***************************************************************************)
(* licensebat-cli/src/check.rs: run                                        *)
(***************************************************************************)
\* The collectors run registers, in order, each with the retriever it was built on.
file_collectors ==
    <<[name |-> "npm", retriever |-> NPM],
      [name |-> "yarn", retriever |-> NPM],
      [name |-> "rust", retriever |-> "crates.io"],
      [name |-> "dart", retriever |-> "hosted"]>>

\* dyn FileCollector dispatch
filename_of(c) == IF c.name = "npm" THEN get_dependency_filename ELSE spec_filename(c.name)
collect(c, dependency_file_content) ==
    IF c.name = "npm" THEN get_dependencies(dependency_file_content)
    ELSE spec_collect(c.name, c.retriever, dependency_file_content)

\* Iterator::find over file_collectors: the index of the first collector whose
\* filename the path contains, 0 when there is none.
RECURSIVE find_from(_, _)
find_from(i, dependency_file) ==
    IF i > Len(file_collectors) THEN 0
    ELSE IF contains(dependency_file, filename_of(file_collectors[i])) THEN i
    ELSE find_from(i + 1, dependency_file)

\* find keeping the last match instead of the first.
RECURSIVE find_last_from(_, _)
find_last_from(i, dependency_file) ==
    IF i = 0 THEN 0
    ELSE IF contains(dependency_file, filename_of(file_collectors[i])) THEN i
    ELSE find_last_from(i - 1, dependency_file)

find_last(dependency_file) == find_last_from(Len(file_collectors), dependency_file)

find(dependency_file) == find_from(1, dependency_file)

\* Lines 54-58 up to the expect: the collectors tried, the retriever calls made
\* and the stream, if any.
select_stream(dependency_file, dep_file_content) ==
    LET i == find(dependency_file) IN
    IF i = 0 THEN [tried |-> <<>>, calls |-> <<>>, stream |-> None]
    ELSE LET got == collect(file_collectors[i], dep_file_content) IN
         [tried |-> <<file_collectors[i].name>>, calls |-> got.calls, stream |-> ok(got.res)]

\* What a future of the stream resolves to once the registry has answered.
future_output(f) ==
    IF f.retriever = NPM THEN get_dependency(f.dep.name, f.dep.version, f.resp)
    ELSE spec_fetch(f.retriever, f.dep, f.resp)

NoDependency == [none |-> TRUE]
Running == [kind |-> "running", msg |-> "", list |-> <<>>]
Returned(list) == [kind |-> "Ok", msg |-> "", list |-> list]
Panicked(msg) == [kind |-> "panic", msg |-> msg, list |-> <<>>]

ExpectMessage == "No collector found for dependency file"
UnwrapMessage == "called Result::unwrap() on an Err value"

\* The answers the registry gives in the runs of the whole pipeline.
PipelineResponses ==
    {TransportFailure, Body(Document(JStr("MIT"), "1.3.0" :> JObj(NoFields)))}

\* The .licrc of the runs of the whole pipeline.
PipelinePolicies == {p \in Policies : "foo" \in DOMAIN p.overrides}

\* run has read .licrc and the dependency file (lines 31 and 35).
Init ==
    /\ path \in Paths
    /\ content \in Contents
    /\ policy \in PipelinePolicies
    /\ pc = "start"
    /\ tried = <<>>
    /\ invoked = <<>>
    /\ stream = <<>>
    /\ ready = <<>>
    /\ dependency = NoDependency
    /\ validated_deps = <<>>
    /\ result = Running

\* Lines 54-58: select the collector, get its stream, or panic in expect.
GetStream ==
    /\ pc = "start"
    /\ LET sel == select_stream(path, content) IN
       /\ tried' = sel.tried
       /\ invoked' = sel.calls
       /\ IF is_some(sel.stream)
          THEN /\ stream' = sel.stream[1]
               /\ pc' = "poll"
               /\ result' = result
          ELSE /\ stream' = stream
               /\ pc' = "panicked"
               /\ result' = Panicked(ExpectMessage)
    /\ UNCHANGED <<path, content, policy, ready, dependency, validated_deps>>

\* Line 63, first poll of the stream: every future is polled and sends its request.
FirstPoll ==
    /\ pc = "poll"
    /\ stream' = [i \in 1..Len(stream) |->
                    [stream[i] EXCEPT !.st = "sent", !.requests = @ + 1]]
    /\ pc' = "await"
    /\ UNCHANGED <<path, content, policy, tried, invoked, ready, dependency,
                   validated_deps, result>>

\* The number of futures whose request has been answered.
Completed == Cardinality({j \in 1..Len(stream) : stream[j].rank > 0})

\* The registry answers, and a failed request is sent once more.
Respond_retry(i, resp) ==
    /\ i \in 1..Len(stream)
    /\ stream[i].st = "sent"
    /\ IF resp.kind # "json" /\ stream[i].requests < 2
       THEN /\ stream' = [stream EXCEPT ![i].requests = @ + 1]
            /\ ready' = ready
       ELSE /\ stream' = [stream EXCEPT ![i].st = "woken", ![i].resp = resp,
                                        ![i].rank = Completed + 1]
            /\ ready' = Append(ready, i)
    /\ UNCHANGED <<path, content, policy, pc, tried, invoked, dependency,
                   validated_deps, result>>

\* The registry answers the request of future i.
Respond(i, resp) ==
    /\ i \in 1..Len(stream)
    /\ stream[i].st = "sent"
    /\ stream' = [stream EXCEPT ![i].st = "woken", ![i].resp = resp,
                                ![i].rank = Completed + 1]
    /\ ready' = Append(ready, i)
    /\ UNCHANGED <<path, content, policy, pc, tried, invoked, dependency,
                   validated_deps, result>>

\* stream.next() yielding the completed futures in the order of the stream, as an
\* ordered stream would.
StreamNext_in_order ==
    /\ pc = "await"
    /\ ready # <<>>
    /\ LET i == CHOOSE j \in 1..Len(stream) :
                    /\ stream[j].st = "woken"
                    /\ \A k \in 1..(j - 1) : stream[k].st # "woken"
           item == future_output(stream[i])
       IN  /\ stream' = [stream EXCEPT ![i].st = "done",
                                        ![i].item = IF is_panic(item) THEN None
                                                    ELSE Some(item)]
           /\ ready' = SelectSeq(ready, LAMBDA j : j # i)
           /\ IF is_panic(item)
              THEN /\ pc' = "panicked"
                   /\ result' = Panicked(UnwrapMessage)
                   /\ dependency' = dependency
              ELSE /\ pc' = "validate"
                   /\ result' = result
                   /\ dependency' = item
    /\ UNCHANGED <<path, content, policy, tried, invoked, validated_deps>>

\* Line 63: stream.next() yields the item of the future that completed first.
StreamNext ==
    /\ pc = "await"
    /\ ready # <<>>
    /\ LET i == Head(ready)
           item == future_output(stream[i])
       IN  /\ stream' = [stream EXCEPT ![i].st = "done",
                                        ![i].item = IF is_panic(item) THEN None
                                                    ELSE Some(item)]
           /\ ready' = Tail(ready)
           /\ IF is_panic(item)
              THEN /\ pc' = "panicked"
                   /\ result' = Panicked(UnwrapMessage)
                   /\ dependency' = dependency
              ELSE /\ pc' = "validate"
                   /\ result' = result
                   /\ dependency' = item
    /\ UNCHANGED <<path, content, policy, tried, invoked, validated_deps>>

\* The loop body without its call of validate.
Validate_skipped ==
    /\ pc = "validate"
    /\ pc' = "push"
    /\ UNCHANGED <<path, content, policy, tried, invoked, stream, ready, dependency,
                   validated_deps, result>>

\* Line 65: licrc.validate(&mut dependency)
Validate ==
    /\ pc = "validate"
    /\ dependency' = validate(dependency, policy)
    /\ stream' = [i \in 1..Len(stream) |->
                    IF stream[i].item = Some(dependency)
                    THEN [stream[i] EXCEPT !.validations = @ + 1]
                    ELSE stream[i]]
    /\ pc' = "push"
    /\ UNCHANGED <<path, content, policy, tried, invoked, ready, validated_deps, result>>

\* Line 66: validated_deps.push(dependency)
Push ==
    /\ pc = "push"
    /\ validated_deps' = Append(validated_deps, dependency)
    /\ dependency' = NoDependency
    /\ pc' = "await"
    /\ UNCHANGED <<path, content, policy, tried, invoked, stream, ready, result>>

\* run returning as soon as no completed future is waiting.
Finish_early ==
    /\ pc = "await"
    /\ ready = <<>>
    /\ result' = Returned(validated_deps)
    /\ pc' = "done"
    /\ UNCHANGED <<path, content, policy, tried, invoked, stream, ready, dependency,
                   validated_deps>>

\* Lines 63 and 70: the stream is exhausted, run returns Ok(validated_deps).
Finish ==
    /\ pc = "await"
    /\ \A i \in 1..Len(stream) : stream[i].st = "done"
    /\ result' = Returned(validated_deps)
    /\ pc' = "done"
    /\ UNCHANGED <<path, content, policy, tried, invoked, stream, ready, dependency,
                   validated_deps>>

RegistryAnswers == \E i \in 1..MaxDeps + 1, resp \in PipelineResponses : Respond(i, resp)

Next ==
    \/ GetStream
    \/ FirstPoll
    \/ RegistryAnswers
    \/ StreamNext
    \/ Validate
    \/ Push
    \/ Finish

Spec == Init /\ [][Next]_vars

(***************************************************************************)
(* The retriever alone: run on a package-lock.json that declares one       *)
(* dependency, with every answer the registry can give.                    *)
(***************************************************************************)
InitRetriever ==
    /\ path = <<"package-lock.json">>
    /\ content \in {c \in Contents : c.format = "package-lock" /\ Len(c.entries) = 1}
    /\ policy \in Policies
    /\ pc = "start"
    /\ tried = <<>>
    /\ invoked = <<>>
    /\ stream = <<>>
    /\ ready = <<>>
    /\ dependency = NoDependency
    /\ validated_deps = <<>>
    /\ result = Running

RetrieverAnswers == \E resp \in Responses : Respond(1, resp)

NextRetriever ==
    \/ GetStream
    \/ FirstPoll
    \/ RetrieverAnswers
    \/ StreamNext
    \/ Validate
    \/ Push
    \/ Finish

SpecRetriever == InitRetriever /\ [][NextRetriever]_vars

(***************************************************************************)
(* The pipeline under fair scheduling: the executor keeps polling run      *)
(* while it can take a step, and the registry answers every request.       *)
(***************************************************************************)
InitLive ==
    /\ path \in {p \in Paths : Len(p) = 1}
    /\ content \in Contents
    /\ policy \in PipelinePolicies
    /\ pc = "start"
    /\ tried = <<>>
    /\ invoked = <<>>
    /\ stream = <<>>
    /\ ready = <<>>
    /\ dependency = NoDependency
    /\ validated_deps = <<>>
    /\ result = Running

RunSteps == GetStream \/ FirstPoll \/ StreamNext \/ Validate \/ Push \/ Finish
AnswerTo(i) == \E resp \in PipelineResponses : Respond(i, resp)

SpecLive ==
    /\ InitLive
    /\ [][Next]_vars
    /\ WF_vars(RunSteps)
    /\ \A i \in 1..MaxDeps + 1 : WF_vars(AnswerTo(i))

(***************************************************************************)
(* Vocabulary of the properties.                                           *)
(***************************************************************************)
\* The record in dependency is as the retriever produced it: yielded, not yet validated.
Yielded == pc = "validate"

\* The future the record in dependency came out of (keys are distinct in a lockfile).
YieldedFuture ==
    stream[CHOOSE i \in 1..Len(stream) : stream[i].dep.name = dependency.name]

CallFailed(f) == f.resp.kind \in {"transport_error", "decode_error"}
CallSucceeded(f) == f.resp.kind = "json"

\* The licenses a successful answer resolves to for the future's dependency.
Resolved(f) == resolve_licenses(f.resp.body, f.dep.version)

Matches(c) == contains(path, filename_of(c))
NoMatch == \A i \in 1..Len(file_collectors) : ~Matches(file_collectors[i])

\* The first collector, in registration order, whose filename the path contains.
FirstMatch ==
    file_collectors[CHOOSE i \in 1..Len(file_collectors) :
                        /\ Matches(file_collectors[i])
                        /\ \A j \in 1..(i - 1) : ~Matches(file_collectors[j])]

ParseFails == ~NoMatch /\ ~collect(FirstMatch, content).res.ok
StructuralFailure == NoMatch \/ ParseFails
RunOver == pc \in {"done", "panicked"}

(***************************************************************************)
(* C1.  Whatever the registry answers (a document, a transport failure, a  *)
(* body that does not deserialize), the future of the npm retriever        *)
(* resolves to a record: the unwraps never panic, and a failure of the     *)
(* call is the text in the record's error field.                           *)
(***************************************************************************)
C1_InfallibleFuture ==
    /\ result.msg # UnwrapMessage
    /\ (Yielded /\ YieldedFuture.retriever = NPM) =>
          /\ ~is_panic(dependency)
          /\ dependency.name = YieldedFuture.dep.name
          /\ YieldedFuture.resp.kind = "transport_error" =>
                dependency.error = Some(to_string(TransportError))
          /\ YieldedFuture.resp.kind = "decode_error" =>
                dependency.error = Some(to_string(DecodeError))

C1_Witness ==
    /\ Yielded
    /\ YieldedFuture.retriever = NPM
    /\ YieldedFuture.resp.kind = "decode_error"
    /\ dependency.error = Some(to_string(DecodeError))

(***************************************************************************)
(* C2.  When run returns, its list holds exactly one record for each entry *)
(* of the lockfile, none missing and none twice; and run never panics once *)
(* a registry answer has arrived, failed or not.                           *)
(***************************************************************************)
RecordsOf(e) ==
    {i \in 1..Len(result.list) :
        result.list[i].name = e.key /\ result.list[i].version = e.version}

C2_OneRecordPerDependency ==
    /\ result.kind = "Ok" =>
          /\ Len(result.list) = Len(content.entries)
          /\ \A k \in 1..Len(content.entries) :
                Cardinality(RecordsOf(content.entries[k])) = 1
    /\ result.kind = "panic" =>
          \A i \in 1..Len(stream) : stream[i].resp = NoResponse

C2_Witness ==
    /\ result.kind = "Ok"
    /\ Len(content.entries) = 2
    /\ Len(result.list) = 2
    /\ \E i \in 1..Len(stream) : CallFailed(stream[i])
    /\ \E i \in 1..Len(stream) : CallSucceeded(stream[i])

C5_UnsupportedLockfileReturned ==
    (NoMatch /\ RunOver) =>
        /\ result.kind = "Err"
        /\ result.msg = "UnsupportedLockfile"

(***************************************************************************)
(* C6.  As claimed: when the matched collector cannot parse the content,   *)
(* run returns a parse error to its caller, told apart from the outcome of *)
(* a missing collector.                                                    *)
(***************************************************************************)
C6_ParseErrorReturned ==
    (ParseFails /\ RunOver) =>
        /\ result.kind = "Err"
        /\ result.msg = "Parse"
        /\ result # Panicked(ExpectMessage)

(***************************************************************************)
(* C7.  On a structural failure (no collector matches, or the matched one  *)
(* cannot parse) run stops at line 58 with no retriever called, no request *)
(* sent, no record validated and no list returned.                         *)
(***************************************************************************)
C7_FailFastBeforeRetrieval ==
    StructuralFailure =>
        /\ pc \in {"start", "panicked"}
        /\ invoked = <<>>
        /\ stream = <<>>
        /\ ready = <<>>
        /\ dependency = NoDependency
        /\ validated_deps = <<>>
        /\ result.kind # "Ok"
        /\ result.list = <<>>

C7_Witness ==
    /\ ParseFails
    /\ content.entries # <<>>
    /\ pc = "panicked"
    /\ invoked = <<>>

(***************************************************************************)
(* C8.  run calls get_dependencies on the first collector, in the order    *)
(* npm, yarn, rust, dart, whose filename is in the path, and on no other:  *)
(* not on a later one that matches too, not even when the first fails to   *)
(* parse; with no match it calls none.                                     *)
(***************************************************************************)
C8_FirstMatchOnly ==
    /\ [i \in 1..Len(file_collectors) |-> file_collectors[i].name]
          = <<"npm", "yarn", "rust", "dart">>
    /\ pc = "start" => tried = <<>>
    /\ pc # "start" =>
          /\ NoMatch => tried = <<>>
          /\ ~NoMatch =>
                /\ tried = <<FirstMatch.name>>
                /\ \A i \in 1..Len(stream) : stream[i].retriever = FirstMatch.retriever

C8_Witness ==
    /\ path = <<"yarn.lock", "package-lock.json">>
    /\ content.format = "yarn"
    /\ pc = "panicked"
    /\ tried = <<"npm">>

(***************************************************************************)
(* C9.  A record of a successful call that resolves a license list has     *)
(* is_valid true and error None.                                           *)
(***************************************************************************)
C9_ResolvedIsValid ==
    (/\ Yielded
     /\ YieldedFuture.retriever = NPM
     /\ CallSucceeded(YieldedFuture)
     /\ is_some(Resolved(YieldedFuture))) =>
        /\ dependency.is_valid = TRUE
        /\ dependency.error = None
        /\ dependency.licenses = Resolved(YieldedFuture)

C9_Witness ==
    /\ Yielded
    /\ YieldedFuture.retriever = NPM
    /\ CallSucceeded(YieldedFuture)
    /\ dependency.licenses = Some(<<"GPL-3.0">>)
    /\ dependency.is_valid

(***************************************************************************)
(* C10.  A record of a successful call that resolves no license has        *)
(* licenses equal to the one-element list ["NO-LICENSE"] and comment set.  *)
(***************************************************************************)
C10_NoLicenseSentinel ==
    (/\ Yielded
     /\ YieldedFuture.retriever = NPM
     /\ CallSucceeded(YieldedFuture)
     /\ is_none(Resolved(YieldedFuture))) =>
        /\ dependency.licenses = Some(<<NoLicense>>)
        /\ is_some(dependency.comment)

C10_Witness ==
    /\ Yielded
    /\ YieldedFuture.retriever = NPM
    /\ YieldedFuture.resp = Body(Document(JNum, "1.3.0" :> JObj(NoFields)))
    /\ YieldedFuture.dep.version = "1.3.0"
    /\ dependency.licenses = Some(<<NoLicense>>)
    /\ is_some(dependency.comment)

(***************************************************************************)
(* C11.  As claimed: for a successful answer the license of the requested  *)
(* version's entry is used when it is there; when it is absent (the entry  *)
(* has no license field, or the document has no entry for the version) the *)
(* package-level field is used, the string itself or the value of its type *)
(* key; any other shape of the package-level field yields no license.      *)
(***************************************************************************)
VersionLicense(f) ==
    Index(Index(Index(f.resp.body, "versions"), f.dep.version), "license")

PackageLevelLicense(f) ==
    LET license == Index(f.resp.body, "license") IN
    IF license.t = "string" THEN Some(license.s)
    ELSE IF license.t = "object" THEN as_str(Index(license, "type"))
    ELSE None

ClaimedLicense(f) ==
    IF VersionLicense(f).t = "string" THEN Some(VersionLicense(f).s)
    ELSE PackageLevelLicense(f)

C11_ResolutionOrder ==
    (/\ Yielded
     /\ YieldedFuture.retriever = NPM
     /\ CallSucceeded(YieldedFuture)
     /\ VersionLicense(YieldedFuture).t \in {"string", "null"}) =>
        dependency.licenses =
            IF is_some(ClaimedLicense(YieldedFuture))
            THEN Some(<<ClaimedLicense(YieldedFuture)[1]>>)
            ELSE Some(<<NoLicense>>)

(***************************************************************************)
(* C12.  Every record of the list run returns went through validate        *)
(* exactly once, after the stream yielded it and before it was pushed: a   *)
(* yielded record is not validated yet, the record pushed is the validated *)
(* item, and a record in the list stays what was pushed.                   *)
(***************************************************************************)
\* rec is the item of some future of the stream after n calls of validate, validated.
ValidatedItem(rec, n) ==
    \E i \in 1..Len(stream) :
        /\ is_some(stream[i].item)
        /\ stream[i].validations = n
        /\ rec = validate(stream[i].item[1], policy)

C12_ValidatedOnceBeforePush ==
    /\ \A i \in 1..Len(stream) : stream[i].validations <= 1
    /\ pc = "validate" =>
          /\ dependency.validated = FALSE
          /\ \E i \in 1..Len(stream) :
                stream[i].item = Some(dependency) /\ stream[i].validations = 0
    /\ pc = "push" =>
          /\ dependency.validated = TRUE
          /\ ValidatedItem(dependency, 1)
    /\ \A k \in 1..Len(validated_deps) :
          /\ validated_deps[k].validated = TRUE
          /\ ValidatedItem(validated_deps[k], 1)
    /\ result.kind = "Ok" => result.list = validated_deps

C12_Witness ==
    /\ result.kind = "Ok"
    /\ Len(result.list) = 2
    /\ \A k \in 1..2 : result.list[k].validated
    /\ \E k \in 1..2 : result.list[k].is_ignored

(***************************************************************************)
(* C13.  The list of run is in completion order: the k-th record pushed is *)
(* the record of the k-th future to complete, whatever the place of its    *)
(* dependency in the lockfile, and a future is yielded only after every    *)
(* future that completed before it.                                        *)
(***************************************************************************)
\* rec is the validated item of the future that completed k-th.
ItemOfRank(rec, k) ==
    \E i \in 1..Len(stream) :
        /\ stream[i].rank = k
        /\ is_some(stream[i].item)
        /\ rec = validate(stream[i].item[1], policy)

C13_CompletionOrder ==
    /\ \A k \in 1..Len(validated_deps) : ItemOfRank(validated_deps[k], k)
    /\ pc = "push" => ItemOfRank(dependency, Len(validated_deps) + 1)
    /\ \A i, j \in 1..Len(stream) :
          (stream[j].st = "done" /\ 0 < stream[i].rank /\ stream[i].rank < stream[j].rank)
              => stream[i].st = "done"
    /\ result.kind = "Ok" =>
          \A k \in 1..Len(result.list) : ItemOfRank(result.list[k], k)

\* The second entry of the lockfile completed first and is first in the list.
C13_Witness ==
    /\ result.kind = "Ok"
    /\ Len(content.entries) = 2
    /\ Len(result.list) = 2
    /\ stream[2].rank = 1
    /\ result.list[1].name = content.entries[2].key
    /\ result.list[2].name = content.entries[1].key

(***************************************************************************)
(* C14.  Every record the retriever emits, with licenses, without a        *)
(* license or for a failed call, has validated false and is_ignored false; *)
(* the two flags of the record in hand change only in the step that calls  *)
(* validate, and never in a record already pushed.                         *)
(***************************************************************************)
IsRecord(x) == "validated" \in DOMAIN x
Flags(x) == <<x.validated, x.is_ignored>>

RetrieverLeavesFlags ==
    (Yielded /\ YieldedFuture.retriever = NPM) =>
        /\ dependency.validated = FALSE
        /\ dependency.is_ignored = FALSE

FlagsChangeInValidate ==
    /\ (IsRecord(dependency) /\ IsRecord(dependency') /\ Flags(dependency') # Flags(dependency))
          => (pc = "validate" /\ pc' = "push")
    /\ \A k \in 1..Len(validated_deps) :
          /\ k <= Len(validated_deps')
          /\ Flags(validated_deps'[k]) = Flags(validated_deps[k])

C14_FlagsPolicyOnly == []RetrieverLeavesFlags /\ [][FlagsChangeInValidate]_vars

C14_Witness ==
    /\ pc = "push"
    /\ dependency.validated
    /\ dependency.is_ignored
    /\ CallFailed(stream[1])
    /\ stream[1].item[1].validated = FALSE
    /\ stream[1].item[1].is_ignored = FALSE

(***************************************************************************)
(* C15.  In every record the retriever builds, error present implies       *)
(* is_valid false.                                                         *)
(***************************************************************************)
C15_ErrorImpliesInvalid ==
    (Yielded /\ YieldedFuture.retriever = NPM /\ is_some(dependency.error)) =>
        dependency.is_valid = FALSE

C15_Witness ==
    /\ Yielded
    /\ YieldedFuture.retriever = NPM
    /\ CallSucceeded(YieldedFuture)
    /\ dependency.error = Some(NoLicenseError)
    /\ dependency.is_valid = FALSE

(***************************************************************************)
(* C16.  When the collector returns its stream, get_dependency has been    *)
(* called exactly once for every entry of the lockfile, in order, with one *)
(* future each, before anything is polled or drained; and the first poll   *)
(* sends all the requests at once, whatever their number.                  *)
(***************************************************************************)
DeclaredDependencies ==
    [k \in 1..Len(content.entries) |->
        Dependency(content.entries[k].key, content.entries[k].version)]

StreamReturned == pc \notin {"start", "panicked"} \/ result.msg = UnwrapMessage

C16_FanOutAtCollect ==
    /\ pc = "start" => invoked = <<>>
    /\ StreamReturned =>
          /\ invoked = DeclaredDependencies
          /\ Len(stream) = Len(invoked)
          /\ \A k \in 1..Len(stream) : stream[k].dep = invoked[k]
    /\ pc = "poll" =>
          /\ validated_deps = <<>>
          /\ \A k \in 1..Len(stream) : stream[k].st = "created" /\ stream[k].requests = 0
    /\ (StreamReturned /\ pc # "poll") =>
          \A k \in 1..Len(stream) : stream[k].st # "created" /\ stream[k].requests >= 1

\* Every request of a lockfile with MaxDeps entries is in flight at once.
C16_Witness ==
    /\ tried = <<"npm">>
    /\ pc = "await"
    /\ Len(invoked) = MaxDeps
    /\ Len(stream) = MaxDeps
    /\ \A k \in 1..Len(stream) : stream[k].st = "sent"

(***************************************************************************)
(* C17.  No retries: a future sends at most one request, and a failed      *)
(* request completes the future, whose item is a record that carries the   *)
(* error; the request is not sent again.                                   *)
(***************************************************************************)
C17_NoRetries ==
    \A i \in 1..Len(stream) :
        /\ stream[i].requests <= 1
        /\ CallFailed(stream[i]) =>
              /\ stream[i].requests = 1
              /\ stream[i].st \in {"woken", "done"}
        /\ (CallFailed(stream[i]) /\ stream[i].st = "done") =>
              /\ is_some(stream[i].item)
              /\ is_some(stream[i].item[1].error)
              /\ stream[i].item[1].is_valid = FALSE

C17_Witness ==
    /\ result.kind = "Ok"
    /\ Len(stream) = 2
    /\ \A i \in 1..2 : CallFailed(stream[i]) /\ stream[i].requests = 1
    /\ \A k \in 1..2 : is_some(result.list[k].error)

(***************************************************************************)
(* C18.  Once a collector has returned a stream and every request is       *)
(* answered, run returns; it returns only when every future of the stream  *)
(* has been yielded, with the full list, so that while one request stays   *)
(* unanswered run has not returned.                                        *)
(***************************************************************************)
Pending(f) == f.st \in {"created", "sent"}

ReturnsOnlyWhenExhausted ==
    /\ pc = "done" =>
          /\ \A i \in 1..Len(stream) : stream[i].st = "done"
          /\ result.kind = "Ok"
          /\ Len(result.list) = Len(stream)
    /\ (\E i \in 1..Len(stream) : Pending(stream[i])) => result.kind = "running"

C18_DrainLiveness ==
    /\ (pc = "poll") ~> (pc = "done")
    /\ []ReturnsOnlyWhenExhausted

\* run is waiting with one record pushed and the other request unanswered.
C18_Witness ==
    /\ pc = "await"
    /\ Len(stream) = 2
    /\ Len(validated_deps) = 1
    /\ \E i \in 1..2 : Pending(stream[i])
    /\ result.kind = "running"

(***************************************************************************)
(* C19.  As claimed: in every record the npm retriever builds, is_valid is *)
(* true exactly when error is absent, and comment is present exactly when  *)
(* licenses is the sentinel list ["NO-LICENSE"], which is exactly when     *)
(* is_valid is false.                                                      *)
(***************************************************************************)
C19_Couplings ==
    (Yielded /\ YieldedFuture.retriever = NPM) =>
        /\ dependency.is_valid <=> dependency.error = None
        /\ is_some(dependency.comment) <=> dependency.licenses = Some(<<NoLicense>>)
        /\ dependency.licenses = Some(<<NoLicense>>) <=> ~dependency.is_valid

(***************************************************************************)
(* C19, amended.  In every record the npm retriever builds, is_valid is    *)
(* true exactly when error is absent, and comment is present exactly when  *)
(* is_valid is false; licenses is then the sentinel list ["NO-LICENSE"].   *)
(* A record with that list and no comment is a valid one, whose license    *)
(* the registry itself gave as NO-LICENSE.                                 *)
(***************************************************************************)
C19_CouplingsResolved ==
    (Yielded /\ YieldedFuture.retriever = NPM) =>
        /\ dependency.is_valid <=> dependency.error = None
        /\ is_some(dependency.comment) <=> ~dependency.is_valid
        /\ is_some(dependency.comment) => dependency.licenses = Some(<<NoLicense>>)
        /\ (dependency.licenses = Some(<<NoLicense>>) /\ is_none(dependency.comment)) =>
              /\ CallSucceeded(YieldedFuture)
              /\ Resolved(YieldedFuture) = Some(<<NoLicense>>)

C19_Witness ==
    /\ Yielded
    /\ YieldedFuture.retriever = NPM
    /\ dependency.licenses = Some(<<NoLicense>>)
    /\ is_none(dependency.comment)
    /\ dependency.is_valid
    /\ dependency.error = None

(***************************************************************************)
(* C20.  The record a future of the npm retriever yields carries the key   *)
(* of its lockfile entry as name and the entry's version as version, the   *)
(* type "npm" and the package URL of that name and version, whether the    *)
(* call succeeded or failed; records of futures in flight together are not *)
(* mixed up, and the identity is the same in the list run returns.         *)
(***************************************************************************)
SameIdentity(rec, entry) ==
    /\ rec.name = entry.key
    /\ rec.version = entry.version
    /\ rec.dependency_type = "npm"
    /\ rec.url = Some(<<"https://www.npmjs.com/package/", entry.key, "/v/", entry.version>>)

C20_IdentityPreserved ==
    /\ \A i \in 1..Len(stream) :
          (stream[i].retriever = NPM /\ is_some(stream[i].item)) =>
              SameIdentity(stream[i].item[1], content.entries[i])
    /\ (Yielded /\ YieldedFuture.retriever = NPM) =>
          \E i \in 1..Len(stream) :
              /\ stream[i].item = Some(dependency)
              /\ SameIdentity(dependency, content.entries[i])
    /\ (result.kind = "Ok" /\ tried \in {<<"npm">>, <<"yarn">>}) =>
          \A k \in 1..Len(result.list) :
              \E i \in 1..Len(stream) :
                  /\ stream[i].rank = k
                  /\ SameIdentity(result.list[k], content.entries[i])

\* Two retrievals in flight together, one failed, one not, completed in reverse order.
C20_Witness ==
    /\ result.kind = "Ok"
    /\ tried = <<"npm">>
    /\ Len(stream) = 2
    /\ stream[2].rank = 1
    /\ CallFailed(stream[2])
    /\ CallSucceeded(stream[1])
    /\ content.entries[1].version # content.entries[2].version
    /\ SameIdentity(result.list[1], content.entries[2])
    /\ SameIdentity(result.list[2], content.entries[1])

====
